---- MODULE Spec2Model ----
(***************************************************************************)
(* Candidate-to-recommendation pipeline of what_should_i_do_now:           *)
(* search_and_normalize -> calculate_travel_time_filter ->                 *)
(* classify_time_fitness -> rank_activities -> llm_evaluate_and_select ->  *)
(* fetch_and_summarize_reviews -> generate_fallback -> recommend_activities*)
(*                                                                         *)
(* Scores: time_fitness_score is kept in points; total_score and its       *)
(* sub-scores are kept in tenths of a point (135 = 13.5 points).           *)
(***************************************************************************)
EXTENDS Integers, Sequences, FiniteSets, TLC

\* ------------------------------------------------------------------------
\* Bounds of the model
\* ------------------------------------------------------------------------
\* Largest number of normalized search results of one run.
MaxItems == 4
\* Longest list handed to apply_constraints on its own.
MaxList == 5
\* Largest distance in meters handed to calculate_travel_time_minutes on
\* its own.
MaxMeters == 1000
\* Longest list handed to calculate_travel_times_batch on its own.
MaxBatchItems == 6
\* Largest current_question_index up to which answers are still sent.
MaxIndex == 5
\* Longest stay in minutes the fitness score is compared over.
MaxStay == 90

\* Python's None for the Optional[int] / Optional[float] fields.
None == 0 - 1

Max2(a, b) == IF a >= b THEN a ELSE b
Min2(a, b) == IF a <= b THEN a ELSE b

\* ------------------------------------------------------------------------
\* Types (app/types/activity.py)
\* ------------------------------------------------------------------------
CategoryType ==
  {"cafe", "park", "viewpoint", "market", "museum", "shopping", "restaurant",
   "landmark", "other"}
PriceLevel == {"low", "mid", "high", "unknown"}
IndoorOutdoor == {"indoor", "outdoor", "mixed", "unknown"}
TimeBucket == {"<=30", "30-60", "60-120", ">120"}
Theme == {"relax", "shopping", "food", "activity"}

\* The fields class ActivityItem declares. expected_wait_min,
\* expected_duration_min and llm_score are commented out in the class body.
DeclaredFields ==
  {"id", "name", "category", "price_level", "rating", "review_count", "open_now",
   "indoor_outdoor", "coords", "distance_meters", "travel_time_min",
   "walking_time_min", "driving_time_min", "transit_time_min", "budget_hint",
   "theme_tags", "source_url", "source", "locale_hints", "reason_text",
   "directions_link", "open_hours_text", "total_score", "time_fitness_score",
   "llm_reason", "llm_recommendation", "review_summary", "top_reviews", "photos",
   "place_id"}
\* The declarations that are present only as comments in the class body.
CommentedOutFields == {"expected_wait_min", "expected_duration_min", "llm_score"}

\* ------------------------------------------------------------------------
\* Configuration tables (app/config.py)
\* ------------------------------------------------------------------------
TIME_BUCKET_LIMITS(b) ==
  CASE b = "<=30" -> 30 [] b = "30-60" -> 60 [] b = "60-120" -> 120 [] OTHER -> None

MAX_TRAVEL_TIME_BY_BUCKET(b) ==
  CASE b = "<=30" -> 10 [] b = "30-60" -> 20 [] b = "60-120" -> 40 [] OTHER -> 60

CATEGORY_DEFAULTS(c) ==
  CASE c = "cafe" -> [wait_min |-> 5, duration_min |-> 20]
    [] c = "park" -> [wait_min |-> 0, duration_min |-> 15]
    [] c = "viewpoint" -> [wait_min |-> 0, duration_min |-> 10]
    [] c = "market" -> [wait_min |-> 3, duration_min |-> 15]
    [] c = "museum" -> [wait_min |-> 15, duration_min |-> 60]
    [] c = "shopping" -> [wait_min |-> 0, duration_min |-> 20]
    [] c = "restaurant" -> [wait_min |-> 10, duration_min |-> 45]
    [] c = "landmark" -> [wait_min |-> 3, duration_min |-> 15]
    [] OTHER -> [wait_min |-> 3, duration_min |-> 15]

\* ------------------------------------------------------------------------
\* Text helpers: the place names of the model and what str.lower() and the
\* substring tests of the keyword tables give for them.
\* ------------------------------------------------------------------------
\* name.lower()
Lower(name) ==
  CASE name = "Starbucks Diagonal Mar" -> "starbucks diagonal mar"
    [] name = "STARBUCKS DIAGONAL MAR" -> "starbucks diagonal mar"
    [] name = "Museu Picasso Born" -> "museu picasso born"
    [] name = "Bar Sants" -> "bar sants"
    [] name = "Parc del Poblenou" -> "parc del poblenou"
    [] name = "Mercat Sants Poblenou" -> "mercat sants poblenou"
    [] name = "Bodega Nova" -> "bodega nova"
    [] name = "Zara" -> "zara"
    [] name = "ZARA" -> "zara"
    [] OTHER -> name

\* The keyword fragments k of the tables below with  k in name.lower().
Fragments(name) ==
  CASE Lower(name) = "starbucks diagonal mar" -> {"starbucks", "diagonal mar"}
    [] Lower(name) = "museu picasso born" -> {"born"}
    [] Lower(name) = "bar sants" -> {"bar", "sants"}
    [] Lower(name) = "parc del poblenou" -> {"poblenou"}
    [] Lower(name) = "mercat sants poblenou" -> {"sants", "poblenou"}
    [] Lower(name) = "bodega nova" -> {}
    [] Lower(name) = "zara" -> {"zara"}
    [] OTHER -> {}

KeywordIn(k, name) == k \in Fragments(name)

CHAIN_KEYWORDS ==
  {"starbucks", "mcdonald", "burger king", "kfc", "subway", "h&m", "zara",
   "uniqlo", "nike", "adidas", "seven eleven", "family mart"}

is_chain_establishment(name) == \E k \in CHAIN_KEYWORDS : KeywordIn(k, name)

get_indoor_outdoor_from_category(c) ==
  CASE c \in {"cafe", "museum", "shopping", "restaurant"} -> "indoor"
    [] c = "park" -> "outdoor"
    [] c \in {"viewpoint", "market", "landmark"} -> "mixed"
    [] OTHER -> "unknown"

\* Category part of extract_theme_tags.
CategoryTags(c) ==
  CASE c \in {"cafe", "park"} -> {"relax"}
    [] c \in {"viewpoint", "museum", "landmark"} -> {"activity"}
    [] c \in {"market", "shopping"} -> {"shopping"}
    [] c = "restaurant" -> {"food"}
    [] OTHER -> {}

\* ------------------------------------------------------------------------
\* Geo utility (app/utils/geo.py)
\* ------------------------------------------------------------------------
\* Python's round(distance_meters / 80): to the nearest integer, a half to
\* the even neighbour.
RoundedWalkMinutes(distance_meters) ==
  LET q == distance_meters \div 80
      r == distance_meters % 80
  IN IF 2 * r < 80 THEN q
     ELSE IF 2 * r > 80 THEN q + 1
     ELSE IF q % 2 = 0 THEN q ELSE q + 1

\* The walking minutes with the quotient rounded instead of cut off.
calculate_travel_time_minutes_rounded(distance_meters) ==
  Max2(3, RoundedWalkMinutes(distance_meters))

calculate_travel_time_minutes(distance_meters) == Max2(3, distance_meters \div 80)

\* distance_estimates of get_travel_time_by_distance_estimation, in dict order.
DistanceEstimates ==
  << <<"poblenou", 1500>>, <<"diagonal mar", 1800>>, <<"22@", 1200>>,
     <<"llull", 800>>, <<"maresme", 2000>>, <<"besòs", 2200>>, <<"forum", 1600>>,
     <<"glòries", 1800>>, <<"born", 3000>>, <<"barceloneta", 2800>>,
     <<"ciutadella", 3200>>, <<"marina", 2500>>, <<"port olímpic", 2200>>,
     <<"villa olímpica", 2000>>, <<"gothic", 3500>>, <<"eixample", 3800>>,
     <<"sagrada familia", 4000>>, <<"gràcia", 4500>>, <<"montjuïc", 5500>>,
     <<"poble sec", 5000>>, <<"sants", 6000>>, <<"les corts", 6500>>,
     <<"zona universitària", 7000>>, <<"pedralbes", 7500>>, <<"sarrià", 7200>>,
     <<"tibidabo", 8000>>, <<"park güell", 5500>>, <<"carmel", 6000>>,
     <<"nou barris", 8500>>, <<"horta", 9000>>, <<"sant andreu", 7500>>,
     <<"badal", 8000>>, <<"collblanc", 7800>>, <<"cornellà", 9500>>,
     <<"esplugues", 8500>>, <<"sant just", 9000>>, <<"airport", 12000>> >>

RECURSIVE EstimatedDistance(_, _)
\* The for/else loop: the first keyword found in the name, else 2500.
EstimatedDistance(name, i) ==
  IF i > Len(DistanceEstimates) THEN 2500
  ELSE IF KeywordIn(DistanceEstimates[i][1], name) THEN DistanceEstimates[i][2]
  ELSE EstimatedDistance(name, i + 1)

get_travel_time_by_distance_estimation(name) ==
  LET d == EstimatedDistance(name, 1) IN
  [walking |-> Max2(5, d \div 70), driving |-> Max2(3, d \div 450),
   transit |-> Max2(5, d \div 200), tier |-> 3,
   calls |-> <<"routes", "directions", "estimation">>]

\* A lookup that keeps the initial result (walk 25 / drive 8 / transit 15)
\* when both routing tiers fail, without the name-keyword estimate.
get_multi_modal_travel_times_defaults_only(routes, directions, name) ==
  IF routes > 0
  THEN [walking |-> routes, driving |-> 8, transit |-> 15, tier |-> 1,
        calls |-> <<"routes">>]
  ELSE IF directions > 0
  THEN [walking |-> directions, driving |-> 8, transit |-> 15, tier |-> 2,
        calls |-> <<"routes", "directions">>]
  ELSE [walking |-> 25, driving |-> 8, transit |-> 15, tier |-> 0,
        calls |-> <<"routes", "directions">>]

\* A lookup that awaits all three tier functions and then picks the first
\* answer that succeeded.
get_multi_modal_travel_times_all_tiers(routes, directions, name) ==
  LET e == get_travel_time_by_distance_estimation(name)
      all == <<"routes", "directions", "estimation">>
  IN IF routes > 0
     THEN [walking |-> routes, driving |-> 8, transit |-> 15, tier |-> 1,
           calls |-> all]
     ELSE IF directions > 0
     THEN [walking |-> directions, driving |-> 8, transit |-> 15, tier |-> 2,
           calls |-> all]
     ELSE e

\* A lookup that derives drive and transit minutes from the walking minutes
\* a provider returned, as get_multi_modal_travel_times does from a distance.
get_multi_modal_travel_times_scaled(routes, directions, name) ==
  IF routes > 0
  THEN [walking |-> routes, driving |-> Max2(3, routes \div 4),
        transit |-> Max2(5, routes \div 2), tier |-> 1, calls |-> <<"routes">>]
  ELSE IF directions > 0
  THEN [walking |-> directions, driving |-> Max2(3, directions \div 4),
        transit |-> Max2(5, directions \div 2), tier |-> 2,
        calls |-> <<"routes", "directions">>]
  ELSE get_travel_time_by_distance_estimation(name)

\* routes / directions: the walking minutes the Routes API resp. the
\* Directions API tier yields for the place; 0 stands for a failed tier
\* (exception, None or a non-positive value). calls lists the tier functions
\* awaited, in order.
get_multi_modal_travel_times_by_name(routes, directions, name) ==
  IF routes > 0
  THEN [walking |-> routes, driving |-> 8, transit |-> 15, tier |-> 1,
        calls |-> <<"routes">>]
  ELSE IF directions > 0
  THEN [walking |-> directions, driving |-> 8, transit |-> 15, tier |-> 2,
        calls |-> <<"routes", "directions">>]
  ELSE get_travel_time_by_distance_estimation(name)

\* ------------------------------------------------------------------------
\* The places the search providers can return, with what the collaborators
\* answer for each: title/type/rating/open_state/gps of the raw record, the
\* great-circle distance of its coordinates from the context, and the walking
\* minutes of the two routing tiers (0: the tier fails).
\* ------------------------------------------------------------------------
Places ==
  << [title |-> "Starbucks Diagonal Mar", category |-> "cafe", rating |-> 42,
      open_state |-> "Open now", gps |-> TRUE, haversine_m |-> 900,
      routes |-> 8, directions |-> 0],
     [title |-> "STARBUCKS DIAGONAL MAR", category |-> "cafe", rating |-> 45,
      open_state |-> "", gps |-> FALSE, haversine_m |-> 0,
      routes |-> 0, directions |-> 21],
     [title |-> "Museu Picasso Born", category |-> "museum", rating |-> None,
      open_state |-> "Open now", gps |-> FALSE, haversine_m |-> 0,
      routes |-> 8, directions |-> 0],
     [title |-> "Bar Sants", category |-> "restaurant", rating |-> 48,
      open_state |-> "Closed", gps |-> TRUE, haversine_m |-> 6000,
      routes |-> 0, directions |-> 0],
     [title |-> "Parc del Poblenou", category |-> "park", rating |-> 45,
      open_state |-> "Open now", gps |-> TRUE, haversine_m |-> 400,
      routes |-> 5, directions |-> 0] >>

PlaceIds == 1..Len(Places)

\* open_now of normalize_search_result: None without open_state, else
\* "open" in open_state.lower().
OpenNow(open_state) ==
  CASE open_state = "" -> "none"
    [] open_state \in {"Open now", "Always open"} -> "true"
    [] OTHER -> "false"

\* normalize_search_result: the ActivityItem built from a raw record.
\* coords is kept as "has coordinates"; haversine_m stands for the position.
normalize_search_result(p) ==
  [place |-> p,
   name |-> Places[p].title,
   category |-> Places[p].category,
   price_level |-> "unknown",
   budget_hint |-> "unknown",
   rating |-> Places[p].rating,
   open_now |-> OpenNow(Places[p].open_state),
   indoor_outdoor |-> get_indoor_outdoor_from_category(Places[p].category),
   coords |-> Places[p].gps,
   haversine_m |-> Places[p].haversine_m,
   distance_meters |-> None,
   travel_time_min |-> None,
   walking_time_min |-> None,
   driving_time_min |-> None,
   transit_time_min |-> None,
   expected_wait_min |-> None,
   expected_duration_min |-> None,
   theme_tags |-> CategoryTags(Places[p].category),
   chain |-> is_chain_establishment(Places[p].title),
   source |-> "serpapi_gmaps",
   reason_text |-> << >>,
   total_score |-> None,
   time_fitness_score |-> None,
   llm_score |-> None,
   review_summary |-> << >>]

\* ------------------------------------------------------------------------
\* State
\* ------------------------------------------------------------------------
VARIABLES
  pc,                 \* the graph node to run next / "respond" / "done" / "unit"
  item_fields,        \* the attribute names an ActivityItem object accepts
  preferences,        \* Preferences: time_bucket, budget_level, themes
  weather,            \* context.weather.condition
  context_coords,     \* context.coords: "ccib" (the default) or "centre"
  api_key,            \* OPENAI_API_KEY is set
  items,              \* the ActivityItem objects of the run, by object id
  activity_items,     \* state["activity_items"]: object ids
  ranked_items,       \* state["ranked_items"]
  llm_selected_items, \* state["llm_selected_items"]
  keys,               \* the keys present in the state dict
  time_bucket_limit,  \* state["time_bucket_limit"]
  fallback_used,      \* state["fallback_used"]
  response,           \* what recommend_activities hands to the caller
  rank_runs,          \* how often rank_activities has run on this collection
  first_rank,         \* scores and ranked_items of the first rank_activities run
  arg,                \* input of a function applied on its own
  ret,                \* its result
  question_sessions   \* main.question_sessions: session id -> QuestionSession

vars ==
  <<pc, item_fields, preferences, weather, context_coords, api_key, items, activity_items,
    ranked_items, llm_selected_items, keys, time_bucket_limit, fallback_used,
    response, rank_runs, first_rank, arg, ret, question_sessions>>

Range(s) == {s[i] : i \in DOMAIN s}

\* Sequences without repetition over S of length at most n.
RECURSIVE DistinctSeqs(_, _)
DistinctSeqs(S, n) ==
  IF n = 0 THEN {<< >>}
  ELSE LET shorter == DistinctSeqs(S, n - 1) IN
       shorter \cup
       UNION {{Append(s, x) : x \in S \ Range(s)} :
                s \in {t \in shorter : Len(t) = n - 1}}

\* The requests of the model: preferences and weather of a run.
Requests ==
  { [time_bucket |-> "<=30", budget_level |-> "low", themes |-> {"relax"},
     weather |-> "sunny", coords |-> "ccib"],
    [time_bucket |-> "30-60", budget_level |-> "mid",
     themes |-> {"food", "shopping"}, weather |-> "rain", coords |-> "centre"],
    [time_bucket |-> "60-120", budget_level |-> "high", themes |-> {"activity"},
     weather |-> "sunny", coords |-> "centre"],
    [time_bucket |-> ">120", budget_level |-> "unknown",
     themes |-> {"relax", "activity"}, weather |-> "rain", coords |-> "ccib"] }

NoResponse == [status |-> "none", items |-> <<>>, fallbackUsed |-> FALSE]

\* question_sessions = {} at import of main.
NoSessions == [s \in {} |-> << >>]

\* initial_state of recommend_activities, before the graph runs.
InitRun(fields) ==
  /\ pc = "search_and_normalize"
  /\ item_fields = fields
  /\ \E r \in Requests :
       /\ preferences = [time_bucket |-> r.time_bucket,
                         budget_level |-> r.budget_level, themes |-> r.themes]
       /\ weather = r.weather
       /\ context_coords = r.coords
  /\ api_key \in BOOLEAN
  /\ items = << >>
  /\ activity_items = << >>
  /\ ranked_items = << >>
  /\ llm_selected_items = << >>
  /\ keys = {"preferences", "context_override", "start_time"}
  /\ time_bucket_limit = None
  /\ fallback_used = FALSE
  /\ response = NoResponse
  /\ rank_runs = 0
  /\ first_rank = << >>
  /\ question_sessions = NoSessions
  /\ arg = << >>
  /\ ret = << >>

\* The class as it is in the source.
Init == InitRun(DeclaredFields)

\* ------------------------------------------------------------------------
\* search_and_normalize (with initialize_context and generate_search_queries
\* before it): the providers return some places, each is normalized.
\* ------------------------------------------------------------------------
search_and_normalize ==
  /\ pc = "search_and_normalize"
  /\ \E found \in DistinctSeqs(PlaceIds, MaxItems) :
       /\ items' = [i \in 1..Len(found) |-> normalize_search_result(found[i])]
       /\ activity_items' = [i \in 1..Len(found) |-> i]
  /\ keys' = keys \cup {"context", "session_id", "search_queries",
                        "activity_items", "source_stats"}
  /\ pc' = "filter_by_travel_time"
  /\ UNCHANGED <<question_sessions, item_fields, preferences, weather, context_coords, api_key, ranked_items,
                 llm_selected_items, time_bucket_limit, fallback_used, response,
                 rank_runs, first_rank, arg, ret>>

\* ------------------------------------------------------------------------
\* Travel-Time Filter (app/nodes/travel_time_filter_node.py)
\* ------------------------------------------------------------------------
\* time_limits of calculate_travel_time_filter.
time_limits(b) ==
  CASE b = "<=30" -> [total |-> 30, travel_min |-> 8, travel_max |-> 10]
    [] b = "30-60" -> [total |-> 60, travel_min |-> 15, travel_max |-> 21]
    [] b = "60-120" -> [total |-> 120, travel_min |-> 30, travel_max |-> 42]
    [] b = ">120" -> [total |-> 180, travel_min |-> 45, travel_max |-> 63]
    [] OTHER -> [total |-> 60, travel_min |-> 15, travel_max |-> 21]

\* The tiers tried in the order walk, drive, transit.
ApplyTravelTimesDriveFirst(item, t, max_travel_time) ==
  LET timed == [item EXCEPT !.walking_time_min = t.walking,
                            !.driving_time_min = t.driving,
                            !.transit_time_min = t.transit]
  IN IF t.walking <= max_travel_time
     THEN [accepted |-> TRUE,
           item |-> [timed EXCEPT !.time_fitness_score = 20,
                                  !.travel_time_min = t.walking]]
     ELSE IF t.driving <= max_travel_time
     THEN [accepted |-> TRUE,
           item |-> [timed EXCEPT !.time_fitness_score = 10,
                                  !.travel_time_min = t.driving]]
     ELSE IF t.transit <= max_travel_time
     THEN [accepted |-> TRUE,
           item |-> [timed EXCEPT !.time_fitness_score = 15,
                                  !.travel_time_min = t.transit]]
     ELSE [accepted |-> FALSE, item |-> timed]

\* Lines 139-162 of calculate_single_item_travel_time: the times t are
\* written on the item and the tiers walk, transit, drive are tried in order.
\* accepted is FALSE where the function returns None.
ApplyTravelTimes(item, t, max_travel_time) ==
  LET timed == [item EXCEPT !.walking_time_min = t.walking,
                            !.driving_time_min = t.driving,
                            !.transit_time_min = t.transit]
  IN IF t.walking <= max_travel_time
     THEN [accepted |-> TRUE,
           item |-> [timed EXCEPT !.time_fitness_score = 20,
                                  !.travel_time_min = t.walking]]
     ELSE IF t.transit <= max_travel_time
     THEN [accepted |-> TRUE,
           item |-> [timed EXCEPT !.time_fitness_score = 15,
                                  !.travel_time_min = t.transit]]
     ELSE IF t.driving <= max_travel_time
     THEN [accepted |-> TRUE,
           item |-> [timed EXCEPT !.time_fitness_score = 10,
                                  !.travel_time_min = t.driving]]
     ELSE [accepted |-> FALSE, item |-> timed]

\* calculate_single_item_travel_time for an item of the run: the providers
\* answer for its place.
calculate_single_item_travel_time(item, max_travel_time) ==
  ApplyTravelTimes(
    item,
    get_multi_modal_travel_times_by_name(
      Places[item.place].routes, Places[item.place].directions, item.name),
    max_travel_time)

RECURSIVE BasicFilter(_, _, _)
\* The except branch: an item is kept if it has coords or fewer than 10 are kept.
BasicFilter(ids, objs, kept) ==
  IF ids = << >> THEN kept
  ELSE BasicFilter(Tail(ids), objs,
                   IF objs[Head(ids)].coords \/ Len(kept) < 10
                   THEN Append(kept, Head(ids)) ELSE kept)

\* calculate_travel_times_batch: every item is evaluated (the objects are
\* written in place); the accepted ones are collected in input order.
calculate_travel_times_batch(ids, objs, max_travel_time) ==
  LET r == [i \in DOMAIN objs |->
              calculate_single_item_travel_time(objs[i], max_travel_time)]
  IN [objs |-> [i \in DOMAIN objs |-> IF i \in Range(ids) THEN r[i].item
                                                          ELSE objs[i]],
      filtered |-> SelectSeq(ids, LAMBDA i : r[i].accepted)]

\* calculate_travel_time_filter. timeout: future.result(timeout=45) raises;
\* the executor's with-block still waits for the worker, so every item has
\* been evaluated when the except branch runs.
calculate_travel_time_filter ==
  /\ pc = "filter_by_travel_time"
  /\ IF activity_items = << >>
     THEN UNCHANGED <<items, activity_items>>
     ELSE \E timeout \in BOOLEAN :
            LET b == calculate_travel_times_batch(
                       activity_items, items,
                       time_limits(preferences.time_bucket).travel_max)
            IN /\ items' = b.objs
               /\ activity_items' =
                    IF timeout THEN BasicFilter(activity_items, b.objs, << >>)
                    ELSE b.filtered
  /\ pc' = "classify_time"
  /\ UNCHANGED <<question_sessions, item_fields, preferences, weather, context_coords, api_key, ranked_items,
                 llm_selected_items, keys, time_bucket_limit, fallback_used,
                 response, rank_runs, first_rank, arg, ret>>

\* ------------------------------------------------------------------------
\* Time-Fitness classifier (app/nodes/classifier_node.py)
\* ------------------------------------------------------------------------
\* Python's  x or d  for an Optional[int].
OrElse(x, d) == IF x = None \/ x = 0 THEN d ELSE x

nearby_keywords == {"poblenou", "diagonal mar", "llull", "forum", "maresme", "besòs"}
mid_distance_keywords == {"sagrada familia", "eixample", "fort pienc", "sant martí"}
far_keywords ==
  {"gracia", "gothic", "born", "raval", "sarria", "les corts", "sants", "montjuic",
   "ciutadella", "barrio gotico", "el born", "catalunya"}

\* An estimate by name without the far branch: a name with a far keyword
\* alone gets the minutes of an unknown place.
calculate_travel_time_from_item_no_far(item) ==
  IF item.walking_time_min # None /\ item.walking_time_min > 0
  THEN [time |-> item.walking_time_min, item |-> item]
  ELSE IF item.coords
  THEN LET distance == item.haversine_m
           travel_time == calculate_travel_time_minutes(distance)
       IN [time |-> travel_time,
           item |-> [item EXCEPT !.distance_meters = distance,
                                 !.walking_time_min = travel_time,
                                 !.driving_time_min = Max2(3, distance \div 500),
                                 !.transit_time_min = Max2(5, distance \div 250)]]
  ELSE LET est ==
             IF \E k \in nearby_keywords : KeywordIn(k, item.name)
             THEN [walking |-> 15, driving |-> 5, transit |-> 10]
             ELSE IF \E k \in mid_distance_keywords : KeywordIn(k, item.name)
             THEN [walking |-> 35, driving |-> 10, transit |-> 20]
             ELSE [walking |-> 25, driving |-> 8, transit |-> 15]
       IN [time |-> est.walking,
           item |-> [item EXCEPT !.walking_time_min = est.walking,
                                 !.driving_time_min = est.driving,
                                 !.transit_time_min = est.transit]]

\* calculate_travel_time_from_item: the travel time it returns and the item
\* with the fields it writes on the way.
calculate_travel_time_from_item(item) ==
  IF item.walking_time_min # None /\ item.walking_time_min > 0
  THEN [time |-> item.walking_time_min, item |-> item]
  ELSE IF item.coords
  THEN LET distance == item.haversine_m
           travel_time == calculate_travel_time_minutes(distance)
       IN [time |-> travel_time,
           item |-> [item EXCEPT !.distance_meters = distance,
                                 !.walking_time_min = travel_time,
                                 !.driving_time_min = Max2(3, distance \div 500),
                                 !.transit_time_min = Max2(5, distance \div 250)]]
  ELSE LET est ==
             IF \E k \in nearby_keywords : KeywordIn(k, item.name)
             THEN [walking |-> 15, driving |-> 5, transit |-> 10]
             ELSE IF \E k \in mid_distance_keywords : KeywordIn(k, item.name)
             THEN [walking |-> 35, driving |-> 10, transit |-> 20]
             ELSE IF \E k \in far_keywords : KeywordIn(k, item.name)
             THEN [walking |-> 60, driving |-> 15, transit |-> 25]
             ELSE [walking |-> 25, driving |-> 8, transit |-> 15]
       IN [time |-> est.walking,
           item |-> [item EXCEPT !.walking_time_min = est.walking,
                                 !.driving_time_min = est.driving,
                                 !.transit_time_min = est.transit]]

get_expected_wait_time(item) == CATEGORY_DEFAULTS(item.category).wait_min
get_expected_duration(item) == CATEGORY_DEFAULTS(item.category).duration_min

\* total_time of the loop body, from the fields as they are on the item.
TotalTime(item) ==
  OrElse(item.travel_time_min, 5) + OrElse(item.expected_wait_min, 0)
    + OrElse(item.expected_duration_min, 20)

\* A fitness score that measures the travel time alone against the bucket
\* limit, leaving the wait and the stay out of total_time.
FitnessScoreTravelOnly(item, time_bucket) ==
  LET bucket_limit == TIME_BUCKET_LIMITS(time_bucket)
      max_travel_time == MAX_TRAVEL_TIME_BY_BUCKET(time_bucket)
      total_time == OrElse(item.travel_time_min, 5)
  IN IF total_time > max_travel_time THEN 1
     ELSE IF bucket_limit = None THEN 20
     ELSE IF total_time <= bucket_limit THEN 20
     ELSE Max2(0, 20 - Min2(20, (total_time - bucket_limit) * 2))

\* A fitness score whose overtime penalty is one point per minute instead
\* of two.
FitnessScoreSinglePenalty(item, time_bucket) ==
  LET bucket_limit == TIME_BUCKET_LIMITS(time_bucket)
      max_travel_time == MAX_TRAVEL_TIME_BY_BUCKET(time_bucket)
      total_time == TotalTime(item)
      base == Max2(0, 20 - Min2(20, total_time - bucket_limit))
      strict == IF bucket_limit = 30 /\ total_time > bucket_limit + 10 THEN 2
                ELSE IF bucket_limit = 30 /\ total_time > bucket_limit + 5 THEN 8
                ELSE base
  IN IF OrElse(item.travel_time_min, 5) > max_travel_time THEN 1
     ELSE IF bucket_limit = None THEN 20
     ELSE IF total_time <= bucket_limit THEN 20
     ELSE IF ~item.coords THEN Max2(0, strict - 10)
     ELSE strict

\* A fitness score whose strict 30-minute rule takes 2 and 8 as points
\* taken off the full score instead of the score itself.
FitnessScoreStrictTakenOff(item, time_bucket) ==
  LET bucket_limit == TIME_BUCKET_LIMITS(time_bucket)
      max_travel_time == MAX_TRAVEL_TIME_BY_BUCKET(time_bucket)
      total_time == TotalTime(item)
      overtime == total_time - bucket_limit
      penalty == Min2(20, overtime * 2)
      base == Max2(0, 20 - penalty)
      strict == IF bucket_limit = 30 /\ total_time > bucket_limit + 10 THEN 20 - 2
                ELSE IF bucket_limit = 30 /\ total_time > bucket_limit + 5
                THEN 20 - 8
                ELSE base
  IN IF OrElse(item.travel_time_min, 5) > max_travel_time THEN 1
     ELSE IF bucket_limit = None THEN 20
     ELSE IF total_time <= bucket_limit THEN 20
     ELSE IF ~item.coords /\ total_time > bucket_limit THEN Max2(0, strict - 10)
     ELSE strict

\* The fitness score of the loop body of classify_time_fitness, for an item
\* whose travel_time_min / expected_wait_min / expected_duration_min are set.
FitnessScore(item, time_bucket) ==
  LET bucket_limit == TIME_BUCKET_LIMITS(time_bucket)
      max_travel_time == MAX_TRAVEL_TIME_BY_BUCKET(time_bucket)
      total_time == TotalTime(item)
      overtime == total_time - bucket_limit
      penalty == Min2(20, overtime * 2)
      base == Max2(0, 20 - penalty)
      strict == IF bucket_limit = 30 /\ total_time > bucket_limit + 10 THEN Max2(0, 2)
                ELSE IF bucket_limit = 30 /\ total_time > bucket_limit + 5
                THEN Max2(0, 8)
                ELSE base
  IN IF OrElse(item.travel_time_min, 5) > max_travel_time THEN 1
     ELSE IF bucket_limit = None THEN 20
     ELSE IF total_time <= bucket_limit THEN 20
     ELSE IF ~item.coords /\ total_time > bucket_limit THEN Max2(0, strict - 10)
     ELSE strict

\* One iteration of the loop of classify_time_fitness.
ClassifyItem(item, time_bucket) ==
  LET t == calculate_travel_time_from_item(item)
      timed == [t.item EXCEPT !.travel_time_min = t.time,
                              !.expected_wait_min = get_expected_wait_time(item),
                              !.expected_duration_min = get_expected_duration(item)]
  IN [timed EXCEPT !.time_fitness_score = FitnessScore(timed, time_bucket)]

\* The first iteration up to the assignment of expected_wait_min, which an
\* ActivityItem without that field refuses (ValueError).
ClassifyItemRefused(item) ==
  LET t == calculate_travel_time_from_item(item)
  IN [t.item EXCEPT !.travel_time_min = t.time]

\* A classifier that rejects: the stage with the items over the travel-time
\* limit taken out of activity_items.
classify_time_fitness_rejecting ==
  /\ pc = "classify_time"
  /\ "expected_wait_min" \in item_fields
  /\ items' = [i \in DOMAIN items |->
                 IF i \in Range(activity_items)
                 THEN ClassifyItem(items[i], preferences.time_bucket)
                 ELSE items[i]]
  /\ activity_items' =
       SelectSeq(activity_items,
                 LAMBDA i : ClassifyItem(items[i], preferences.time_bucket)
                              .time_fitness_score # 1)
  /\ time_bucket_limit' = TIME_BUCKET_LIMITS(preferences.time_bucket)
  /\ keys' = keys \cup {"time_bucket_limit"}
  /\ pc' = "rank_activities"
  /\ UNCHANGED <<question_sessions, item_fields, preferences, weather, context_coords, api_key,
                 ranked_items, llm_selected_items, fallback_used, response,
                 rank_runs, first_rank, arg, ret>>

classify_time_fitness ==
  /\ pc = "classify_time"
  /\ IF activity_items # << >> /\ "expected_wait_min" \notin item_fields
     THEN /\ items' = [items EXCEPT ![Head(activity_items)] =
                         ClassifyItemRefused(items[Head(activity_items)])]
          /\ pc' = "raised"
          /\ UNCHANGED <<time_bucket_limit, keys>>
     ELSE /\ items' = [i \in DOMAIN items |->
                         IF i \in Range(activity_items)
                         THEN ClassifyItem(items[i], preferences.time_bucket)
                         ELSE items[i]]
          /\ time_bucket_limit' = TIME_BUCKET_LIMITS(preferences.time_bucket)
          /\ keys' = keys \cup {"time_bucket_limit"}
          /\ pc' = "rank_activities"
  /\ UNCHANGED <<question_sessions, item_fields, preferences, weather, context_coords, api_key, activity_items,
                 ranked_items, llm_selected_items, fallback_used, response,
                 rank_runs, first_rank, arg, ret>>

\* ------------------------------------------------------------------------
\* Scoring & Ranking Engine, Diversity Selector (app/nodes/ranker_node.py)
\* ------------------------------------------------------------------------
\* exp(-distance_meters / 1000) * 20 in tenths of a point, rounded down, for
\* the distances that occur in the model.
ExpDecay20(d) ==
  CASE d <= 0 -> 200
    [] d = 400 -> 134
    [] d = 900 -> 81
    [] d = 1000 -> 73
    [] d = 3000 -> 9
    [] OTHER -> 0

calculate_distance_score(item) ==
  IF item.distance_meters = None \/ item.distance_meters = 0 THEN 100
  ELSE Min2(200, ExpDecay20(item.distance_meters))

budget_levels == <<"low", "mid", "high">>
IndexOf(seq, x) == CHOOSE i \in DOMAIN seq : seq[i] = x

calculate_budget_score(item, user_budget) ==
  IF item.price_level = "unknown" THEN 70
  ELSE IF item.price_level = user_budget THEN 150
  ELSE IF user_budget \in Range(budget_levels)
          /\ (IndexOf(budget_levels, user_budget)
                - IndexOf(budget_levels, item.price_level)) \in {1, 0 - 1}
  THEN 80
  ELSE 0

\* rating is in tenths of a star: (rating / 5.0) * 15 points is 3 * rating tenths.
calculate_rating_score(item) == IF item.rating = None THEN 70 ELSE 3 * item.rating

calculate_weather_score(item, weather_condition) ==
  IF weather_condition = "rain"
  THEN CASE item.indoor_outdoor = "indoor" -> 100
         [] item.indoor_outdoor = "outdoor" -> 20
         [] OTHER -> 70
  ELSE Min2(100, 70 + (IF item.indoor_outdoor = "outdoor" THEN 30 ELSE 0))

calculate_theme_score(item, user_themes) ==
  LET n == Cardinality(user_themes \cap item.theme_tags)
  IN IF n = 0 THEN 60 ELSE Min2(150, 60 + n * 30)

\* The sum before the clamp.
RawTotalScore(item, prefs, weather_condition) ==
  calculate_distance_score(item) + 10 * item.time_fitness_score
    + calculate_budget_score(item, prefs.budget_level)
    + calculate_rating_score(item)
    + calculate_weather_score(item, weather_condition)
    + calculate_theme_score(item, prefs.themes)
    + (IF ~item.chain THEN 50 ELSE 0)
    - (IF item.open_now = "false" THEN 150 ELSE 0)

\* A scoring that adds to the total_score already on the item instead of
\* replacing it: what a ranking that is not repeatable would look like.
calculate_total_score_accumulating(item, prefs, weather_condition) ==
  Max2(0, Min2(1000, RawTotalScore(item, prefs, weather_condition)
                       + (IF item.total_score = None THEN 0
                          ELSE item.total_score \div 10)))

\* The sum of the sub-scores without the clamp to 0..100.
calculate_total_score_unclamped(item, prefs, weather_condition) ==
  RawTotalScore(item, prefs, weather_condition)

calculate_total_score(item, prefs, weather_condition) ==
  Max2(0, Min2(1000, RawTotalScore(item, prefs, weather_condition)))

RECURSIVE InsertByScore(_, _, _)
\* x goes after every element whose score is at least its own.
InsertByScore(sorted, x, objs) ==
  IF sorted = << >> THEN <<x>>
  ELSE IF objs[Head(sorted)].total_score >= objs[x].total_score
  THEN <<Head(sorted)>> \o InsertByScore(Tail(sorted), x, objs)
  ELSE <<x>> \o sorted

RECURSIVE SortByScoreDesc(_, _)
\* list.sort(key=total_score, reverse=True): descending and stable.
SortByScoreDesc(ids, objs) ==
  IF ids = << >> THEN << >>
  ELSE InsertByScore(SortByScoreDesc(SubSeq(ids, 1, Len(ids) - 1), objs),
                     ids[Len(ids)], objs)

\* The time filter of rank_activities (lines 50-77).
TimeFilterOk(item, time_bucket, limit) ==
  LET travel_time == OrElse(item.travel_time_min, 5)
      total_time == travel_time + OrElse(item.expected_wait_min, 0)
                      + OrElse(item.expected_duration_min, 20)
      max_travel_time == CASE time_bucket = "<=30" -> 10
                           [] time_bucket = "30-60" -> 20
                           [] time_bucket = "60-120" -> 40
                           [] time_bucket = ">120" -> 60
                           [] OTHER -> 30
  IN /\ travel_time <= max_travel_time
     /\ IF limit = 30 THEN total_time <= 30
        ELSE IF limit # None /\ limit # 0 THEN total_time <= limit
        ELSE TRUE

RECURSIVE ConstraintLoop(_, _, _, _, _)
\* The loop of apply_constraints over the rest of the list.
ConstraintLoop(rest, objs, filtered, seen_chains, category_counts) ==
  IF rest = << >> THEN filtered
  ELSE LET item == objs[Head(rest)]
           chain_key == Lower(item.name)
           seen == IF item.chain THEN seen_chains \cup {chain_key} ELSE seen_chains
       IN IF item.chain /\ chain_key \in seen_chains
          THEN ConstraintLoop(Tail(rest), objs, filtered, seen_chains, category_counts)
          ELSE IF category_counts[item.category] >= 2
          THEN ConstraintLoop(Tail(rest), objs, filtered, seen, category_counts)
          ELSE LET kept == Append(filtered, Head(rest))
                   counts == [category_counts EXCEPT ![item.category] = @ + 1]
               IN IF Len(kept) >= 4 THEN kept
                  ELSE ConstraintLoop(Tail(rest), objs, kept, seen, counts)

RECURSIVE ConstraintLoopExactNames(_, _, _, _, _)
\* The loop with chain names compared as written, not in lower case.
ConstraintLoopExactNames(rest, objs, filtered, seen_chains, category_counts) ==
  IF rest = << >> THEN filtered
  ELSE LET item == objs[Head(rest)]
           chain_key == item.name
           seen == IF item.chain THEN seen_chains \cup {chain_key} ELSE seen_chains
       IN IF item.chain /\ chain_key \in seen_chains
          THEN ConstraintLoopExactNames(Tail(rest), objs, filtered, seen_chains,
                                        category_counts)
          ELSE IF category_counts[item.category] >= 2
          THEN ConstraintLoopExactNames(Tail(rest), objs, filtered, seen,
                                        category_counts)
          ELSE LET kept == Append(filtered, Head(rest))
                   counts == [category_counts EXCEPT ![item.category] = @ + 1]
               IN IF Len(kept) >= 4 THEN kept
                  ELSE ConstraintLoopExactNames(Tail(rest), objs, kept, seen, counts)

apply_constraints_exact_names(ids, objs) ==
  ConstraintLoopExactNames(ids, objs, << >>, {}, [c \in CategoryType |-> 0])

apply_constraints(ids, objs) ==
  ConstraintLoop(ids, objs, << >>, {}, [c \in CategoryType |-> 0])

\* generate_reason_text: the template "[walk N min] category ... theme",
\* as the list of its parts; never the empty text.
generate_reason_text(item, prefs) ==
  <<"walk", OrElse(item.travel_time_min, 5), item.category, item.budget_hint,
    IF prefs.themes \cap item.theme_tags = {} THEN "enjoy" ELSE "theme">>

\* The body of rank_activities on a non-empty collection whose items carry
\* the expected_* fields: the objects after it and state["ranked_items"].
RankBody(ids, objs, prefs, weather_condition, limit) ==
  LET scored == [i \in DOMAIN objs |->
                   IF i \in Range(ids)
                   THEN [objs[i] EXCEPT !.total_score =
                           calculate_total_score(objs[i], prefs, weather_condition)]
                   ELSE objs[i]]
      sorted == SortByScoreDesc(ids, scored)
      time_filtered ==
        SelectSeq(sorted, LAMBDA i : TimeFilterOk(scored[i], prefs.time_bucket, limit))
      filtered_items == apply_constraints(time_filtered, scored)
      top_items == SubSeq(filtered_items, 1, Min2(4, Len(filtered_items)))
  IN [objs |-> [i \in DOMAIN scored |->
                  IF i \in Range(top_items)
                  THEN [scored[i] EXCEPT !.reason_text =
                          generate_reason_text(scored[i], prefs)]
                  ELSE scored[i]],
      ranked |-> top_items]

\* The scoring loop alone: what has happened when the time filter then reads
\* expected_wait_min of an item without that field (AttributeError).
RankBodyRefused(ids, objs, prefs, weather_condition) ==
  [i \in DOMAIN objs |->
     IF i \in Range(ids)
     THEN [objs[i] EXCEPT !.total_score =
             calculate_total_score(objs[i], prefs, weather_condition)]
     ELSE objs[i]]

Scores(objs) == [i \in DOMAIN objs |-> objs[i].total_score]

\* rank_activities as a step on the graph state; again = FALSE for the run
\* of the graph node, TRUE for a second run on the unchanged collection.
RankStep(again) ==
  /\ IF activity_items = << >>
     THEN /\ ranked_items' = << >>
          /\ keys' = keys \cup {"ranked_items"}
          /\ pc' = IF again THEN pc ELSE "llm_evaluate"
          /\ rank_runs' = rank_runs + 1
          /\ first_rank' = IF again THEN first_rank
                           ELSE [scores |-> Scores(items), ranked |-> << >>]
          /\ UNCHANGED items
     ELSE IF "expected_wait_min" \notin item_fields
     THEN /\ items' = RankBodyRefused(activity_items, items, preferences, weather)
          /\ pc' = "raised"
          /\ rank_runs' = rank_runs + 1
          /\ UNCHANGED <<ranked_items, keys, first_rank>>
     ELSE LET r == RankBody(activity_items, items, preferences, weather,
                            time_bucket_limit)
          IN /\ items' = r.objs
             /\ ranked_items' = r.ranked
             /\ keys' = keys \cup {"ranked_items"}
             /\ pc' = IF again THEN pc ELSE "llm_evaluate"
             /\ rank_runs' = rank_runs + 1
             /\ first_rank' = IF again THEN first_rank
                              ELSE [scores |-> Scores(r.objs), ranked |-> r.ranked]
  /\ UNCHANGED <<question_sessions, item_fields, preferences, weather, context_coords, api_key, activity_items,
                 llm_selected_items, time_bucket_limit, fallback_used, response,
                 arg, ret>>

rank_activities == pc = "rank_activities" /\ RankStep(FALSE)

\* A second run of the stage right after the first, nothing changed between.
rank_activities_again == pc = "llm_evaluate" /\ rank_runs = 1 /\ RankStep(TRUE)

\* ------------------------------------------------------------------------
\* LLM evaluator (app/nodes/llm_evaluator_node.py)
\* ------------------------------------------------------------------------
FirstN(seq, n) == SubSeq(seq, 1, Min2(n, Len(seq)))

\* What the model answers when the call and the JSON parse succeed: the
\* numbers of selected_activities and the recommendation text it gives.
LLMAnswers ==
  { [picks |-> << >>, text |-> <<"llm">>],
    [picks |-> <<1>>, text |-> <<"llm">>],
    [picks |-> <<2, 1>>, text |-> <<"llm">>],
    [picks |-> <<2>>, text |-> << >>],
    [picks |-> <<1, 2, 3, 4, 5>>, text |-> <<"llm">>] }

\* The valid picks, in the order given: numbers with 0 <= number - 1 < len.
ValidPicks(picks, ids) ==
  LET ok == SelectSeq(picks, LAMBDA n : n >= 1 /\ n <= Len(ids))
  IN [k \in 1..Len(ok) |-> ids[ok[k]]]

llm_evaluate_and_select ==
  /\ pc = "llm_evaluate"
  /\ \/ /\ activity_items = << >>
        /\ llm_selected_items' = << >>
        /\ UNCHANGED items
     \/ /\ activity_items # << >>
        /\ ~api_key
        /\ llm_selected_items' = FirstN(activity_items, 4)
        /\ UNCHANGED items
     \/ \* the API call raises, or the answer is no JSON
        /\ activity_items # << >>
        /\ api_key
        /\ llm_selected_items' = FirstN(activity_items, 4)
        /\ UNCHANGED items
     \/ /\ activity_items # << >>
        /\ api_key
        /\ \E a \in LLMAnswers :
             LET selected == ValidPicks(a.picks, activity_items)
             IN IF selected # << >> /\ "llm_score" \notin item_fields
                THEN \* the assignment of llm_score raises: except Exception
                     /\ llm_selected_items' = FirstN(activity_items, 4)
                     /\ UNCHANGED items
                ELSE /\ llm_selected_items' = selected
                     /\ items' = [i \in DOMAIN items |->
                                    IF i \in Range(selected)
                                    THEN [items[i] EXCEPT !.llm_score = 75,
                                                          !.reason_text = a.text]
                                    ELSE items[i]]
  /\ keys' = keys \cup {"llm_selected_items"}
  /\ pc' = "fetch_reviews"
  /\ UNCHANGED <<question_sessions, item_fields, preferences, weather, context_coords, api_key,
                 activity_items, ranked_items, time_bucket_limit, fallback_used,
                 response, rank_runs, first_rank, arg, ret>>

\* state.get("llm_selected_items", state.get("ranked_items", []))
CurrentItems ==
  IF "llm_selected_items" \in keys THEN llm_selected_items
  ELSE IF "ranked_items" \in keys THEN ranked_items
  ELSE << >>

\* ------------------------------------------------------------------------
\* Review fetcher (app/nodes/review_fetcher_node.py)
\* ------------------------------------------------------------------------
\* found: reviews were collected for the selected places; price: the price
\* level the summarizing LLM extracts ("" for none; only with an API key).
fetch_and_summarize_reviews ==
  /\ pc = "fetch_reviews"
  /\ IF CurrentItems = << >>
     THEN UNCHANGED items
     ELSE \E found \in BOOLEAN, price \in {"", "mid"} :
            /\ (price # "") => (found /\ api_key)
            /\ items' = [i \in DOMAIN items |->
                           IF i \in Range(CurrentItems)
                           THEN [items[i] EXCEPT
                                   !.review_summary =
                                     IF found THEN <<"reviews">> ELSE <<"no reviews">>,
                                   !.price_level = IF price # "" THEN price ELSE @,
                                   !.budget_hint = IF price # "" THEN price ELSE @]
                           ELSE items[i]]
  /\ pc' = "generate_fallback"
  /\ UNCHANGED <<question_sessions, item_fields, preferences, weather, context_coords, api_key,
                 activity_items, ranked_items, llm_selected_items, keys,
                 time_bucket_limit, fallback_used, response, rank_runs,
                 first_rank, arg, ret>>

\* ------------------------------------------------------------------------
\* Fallback Augmenter (app/nodes/fallback_node.py)
\* ------------------------------------------------------------------------
FALLBACK_CATALOG ==
  << [id |-> "fallback_1", name |-> "Placa de Catalunya bench spot",
      category |-> "park", indoor_outdoor |-> "outdoor", theme_tags |-> {"relax"}],
     [id |-> "fallback_2", name |-> "Passeig de Gracia window shopping",
      category |-> "shopping", indoor_outdoor |-> "mixed",
      theme_tags |-> {"shopping"}],
     [id |-> "fallback_3", name |-> "El Born photo spot",
      category |-> "viewpoint", indoor_outdoor |-> "outdoor",
      theme_tags |-> {"activity"}],
     [id |-> "fallback_4", name |-> "Ciutadella park short walk",
      category |-> "park", indoor_outdoor |-> "outdoor",
      theme_tags |-> {"relax", "activity"}],
     [id |-> "fallback_5", name |-> "La Boqueria market",
      category |-> "market", indoor_outdoor |-> "indoor",
      theme_tags |-> {"food", "shopping"}],
     [id |-> "fallback_6", name |-> "Gothic Quarter alleys",
      category |-> "landmark", indoor_outdoor |-> "outdoor",
      theme_tags |-> {"activity"}] >>

\* calculate_distance_meters(context.coords, data["coords"]) for the catalog
\* entries, from the default context (CCIB) and from Placa de Catalunya.
CatalogDistance(origin) ==
  IF origin = "ccib" THEN <<4826, 4913, 4143, 3474, 4947, 4611>>
  ELSE <<124, 615, 1082, 1448, 627, 690>>

\* Object ids of the items created from the catalog.
FallbackId(k) == 100 + k

create_fallback_item(k, origin) ==
  [place |-> 0,
   name |-> FALLBACK_CATALOG[k].name,
   category |-> FALLBACK_CATALOG[k].category,
   price_level |-> "low",
   budget_hint |-> "low",
   rating |-> None,
   open_now |-> "true",
   indoor_outdoor |-> FALLBACK_CATALOG[k].indoor_outdoor,
   coords |-> TRUE,
   haversine_m |-> CatalogDistance(origin)[k],
   distance_meters |-> CatalogDistance(origin)[k],
   travel_time_min |-> calculate_travel_time_minutes(CatalogDistance(origin)[k]),
   walking_time_min |-> None,
   driving_time_min |-> None,
   transit_time_min |-> None,
   expected_wait_min |-> None,
   expected_duration_min |-> None,
   theme_tags |-> FALLBACK_CATALOG[k].theme_tags,
   chain |-> FALSE,
   source |-> "fallback",
   reason_text |-> <<"catalog", FALLBACK_CATALOG[k].id>>,
   total_score |-> None,
   time_fitness_score |-> None,
   llm_score |-> None,
   review_summary |-> << >>]

calculate_fallback_score(item, prefs, weather_condition) ==
  600
  + (IF item.distance_meters = None \/ item.distance_meters = 0 THEN 0
     ELSE IF item.distance_meters <= 500 THEN 150
     ELSE IF item.distance_meters <= 1000 THEN 100
     ELSE 50)
  + 50 * Cardinality(prefs.themes \cap item.theme_tags)
  + (IF weather_condition = "rain"
     THEN (IF item.indoor_outdoor = "indoor" THEN 100
           ELSE IF item.indoor_outdoor = "outdoor" THEN 0 - 50 ELSE 0)
     ELSE (IF item.indoor_outdoor = "outdoor" THEN 50 ELSE 0))

\* The scored catalog items, by object id.
FallbackItems(origin, prefs, weather_condition) ==
  [i \in {FallbackId(k) : k \in DOMAIN FALLBACK_CATALOG} |->
     LET item == create_fallback_item(i - 100, origin)
     IN [item EXCEPT !.total_score =
           calculate_fallback_score(item, prefs, weather_condition)]]

\* How many catalog items generate_fallback appends to a list of length n.
NeededCount(n) == Max2(0, 4 - n)

generate_fallback ==
  /\ pc = "generate_fallback"
  /\ LET current_items == CurrentItems
         needed_count == NeededCount(Len(current_items))
         fallback_items == FallbackItems(context_coords, preferences, weather)
         sorted == SortByScoreDesc(
                     [k \in DOMAIN FALLBACK_CATALOG |-> FallbackId(k)],
                     fallback_items)
         selected_fallbacks == FirstN(sorted, needed_count)
     IN IF needed_count = 0
        THEN /\ fallback_used' = FALSE
             /\ UNCHANGED <<items, ranked_items>>
        ELSE /\ items' = [i \in DOMAIN items \cup Range(selected_fallbacks) |->
                            IF i \in DOMAIN items THEN items[i]
                            ELSE fallback_items[i]]
             /\ ranked_items' = current_items \o selected_fallbacks
             /\ fallback_used' = (needed_count > 0)
  /\ keys' = keys \cup {"fallback_used"}
                   \cup (IF NeededCount(Len(CurrentItems)) = 0 THEN {}
                         ELSE {"ranked_items"})
  /\ pc' = "respond"
  /\ UNCHANGED <<question_sessions, item_fields, preferences, weather, context_coords, api_key,
                 activity_items, llm_selected_items, time_bucket_limit, response,
                 rank_runs, first_rank, arg, ret>>

\* ------------------------------------------------------------------------
\* recommend_activities (main.py): the response built from the graph result,
\* or HTTP 500 when a node or the summary print raised.
\* ------------------------------------------------------------------------
FinalItems ==
  IF "llm_selected_items" \in keys THEN llm_selected_items ELSE ranked_items

recommend_activities ==
  /\ pc \in {"respond", "raised"}
  /\ response' =
       IF \/ pc = "raised"
          \/ "ranked_items" \notin keys
          \/ \E i \in Range(ranked_items) : items[i].total_score = None
       THEN [status |-> "http500", items |-> << >>, fallbackUsed |-> FALSE]
       ELSE [status |-> "ok", items |-> FinalItems,
             fallbackUsed |-> ("fallback_used" \in keys /\ fallback_used)]
  /\ pc' = "done"
  /\ UNCHANGED <<question_sessions, item_fields, preferences, weather, context_coords, api_key,
                 items, activity_items, ranked_items, llm_selected_items, keys,
                 time_bucket_limit, fallback_used, rank_runs, first_rank, arg, ret>>

Next ==
  \/ search_and_normalize
  \/ calculate_travel_time_filter
  \/ classify_time_fitness
  \/ rank_activities
  \/ rank_activities_again
  \/ llm_evaluate_and_select
  \/ fetch_and_summarize_reviews
  \/ generate_fallback
  \/ recommend_activities

Spec == Init /\ [][Next]_vars

\* The class with its three commented-out declarations restored, so that the
\* stages after the Travel-Time Filter run on non-empty collections.
InitDeclared == InitRun(DeclaredFields \cup CommentedOutFields)
SpecDeclared == InitDeclared /\ [][Next]_vars

\* ------------------------------------------------------------------------
\* The stage functions applied on their own: arg holds the function's name
\* and its arguments, ret its result.
\* ------------------------------------------------------------------------
\* (name, chain flag, category) of the items of a list given to
\* apply_constraints.
ConstraintItems ==
  { [name |-> "Zara", chain |-> TRUE, category |-> "shopping"],
    [name |-> "ZARA", chain |-> TRUE, category |-> "shopping"],
    [name |-> "ZARA", chain |-> TRUE, category |-> "cafe"],
    [name |-> "Zara", chain |-> FALSE, category |-> "shopping"],
    [name |-> "Starbucks Diagonal Mar", chain |-> TRUE, category |-> "cafe"],
    [name |-> "Parc del Poblenou", chain |-> FALSE, category |-> "park"],
    [name |-> "Museu Picasso Born", chain |-> FALSE, category |-> "park"],
    [name |-> "Starbucks Diagonal Mar", chain |-> TRUE, category |-> "park"] }

ConstraintArgs ==
  { [fn |-> "apply_constraints", objs |-> l] :
      l \in UNION {[1..n -> ConstraintItems] : n \in 0..MaxList} }

\* Items for calculate_total_score: combinations of the fields it reads.
ScoreArgs ==
  { [fn |-> "calculate_total_score",
     item |-> [distance_meters |-> d, time_fitness_score |-> f, price_level |-> p,
               rating |-> r, indoor_outdoor |-> io, theme_tags |-> tags,
               chain |-> ch, open_now |-> o],
     prefs |-> [time_bucket |-> "30-60", budget_level |-> b, themes |-> th],
     weather |-> w] :
      d \in {None, 400, 3000}, f \in {0, 20}, p \in {"low", "high", "unknown"},
      r \in {None, 0, 50}, io \in {"indoor", "outdoor"}, tags \in {{}, Theme},
      ch \in BOOLEAN, o \in {"true", "false"}, b \in {"low", "unknown"},
      th \in {{"relax"}, Theme}, w \in {"sunny", "rain"} }

\* Catalog entries for calculate_fallback_score: any entry, at any of the
\* distance classes, under any non-empty theme choice and weather.
FallbackScoreArgs ==
  { [fn |-> "calculate_fallback_score", entry |-> k, distance |-> d,
     prefs |-> [time_bucket |-> "30-60", budget_level |-> "low", themes |-> th],
     weather |-> w] :
      k \in DOMAIN FALLBACK_CATALOG, d \in {0, 124, 615, 4826},
      th \in (SUBSET Theme) \ {{}}, w \in {"sunny", "rain"} }

\* Travel times an item can carry into the classifier: a provider's walking
\* minutes with the default drive 8 / transit 15, or an estimate by name.
UnitTravelTimes ==
  { [walking |-> w, driving |-> 8, transit |-> 15] :
      w \in {3, 5, 8, 10, 11, 12, 16, 20, 21, 40, 42, 60, 63} }
  \cup { [walking |-> t.walking, driving |-> t.driving, transit |-> t.transit] :
           t \in {get_travel_time_by_distance_estimation(Places[p].title) :
                    p \in PlaceIds} }

\* An item as normalize_search_result builds it, with the given category
\* and coordinates.
UnitItem(p, category, has_coords) ==
  [normalize_search_result(p) EXCEPT !.category = category, !.coords = has_coords]

\* Names with a far keyword alone, with a far and a nearby keyword, and with
\* no keyword of any table, next to the titles of the places.
UnitNames ==
  {Places[p].title : p \in PlaceIds} \cup {"Mercat Sants Poblenou", "Bodega Nova"}

\* An item as normalize_search_result builds it for a title.
UnitNamedItem(n, has_coords) ==
  [UnitItem(1, "cafe", has_coords) EXCEPT !.name = n,
                                          !.chain = is_chain_establishment(n)]

\* Items for the classifier: as the Travel-Time Filter leaves them (accepted
\* at a tier, or evaluated and rejected), or not filtered at all.
ClassifyArgs ==
  { [fn |-> "classify_time_fitness", time_bucket |-> b,
     item |-> ApplyTravelTimes(UnitItem(1, c, co), t,
                               time_limits(b).travel_max).item] :
      b \in TimeBucket, c \in CategoryType, co \in BOOLEAN, t \in UnitTravelTimes }
  \cup
  { [fn |-> "classify_time_fitness", time_bucket |-> b,
     item |-> UnitItem(p, Places[p].category, co)] :
      b \in TimeBucket, p \in PlaceIds, co \in BOOLEAN }
  \cup
  { [fn |-> "classify_time_fitness", time_bucket |-> b,
     item |-> UnitNamedItem(n, co)] :
      b \in TimeBucket, n \in UnitNames, co \in BOOLEAN }

\* Calls of calculate_single_item_travel_time: a name, what the two routing
\* tiers answer for it (0: the tier fails) and the bucket of the request.
TravelArgs ==
  { [fn |-> "calculate_single_item_travel_time", time_bucket |-> b,
     routes |-> r, directions |-> d, item |-> UnitNamedItem(n, co)] :
      b \in TimeBucket, r \in {0, 5, 12, 25, 70}, d \in {0, 9, 21},
      n \in UnitNames, co \in BOOLEAN }

\* Calls of calculate_travel_time_minutes: every distance up to MaxMeters.
WalkMinutesArgs ==
  { [fn |-> "calculate_travel_time_minutes", distance_meters |-> d] :
      d \in 0..MaxMeters }

UnitArgs ==
  ConstraintArgs \cup ScoreArgs \cup FallbackScoreArgs \cup ClassifyArgs
    \cup TravelArgs \cup WalkMinutesArgs

InitUnit ==
  /\ pc = "call"
  /\ arg \in UnitArgs
  /\ ret = << >>
  /\ item_fields = DeclaredFields \cup CommentedOutFields
  /\ preferences = [time_bucket |-> "30-60", budget_level |-> "low",
                    themes |-> {"relax"}]
  /\ weather = "sunny"
  /\ context_coords = "ccib"
  /\ api_key = FALSE
  /\ items = << >>
  /\ activity_items = << >>
  /\ ranked_items = << >>
  /\ llm_selected_items = << >>
  /\ keys = {}
  /\ time_bucket_limit = None
  /\ fallback_used = FALSE
  /\ response = NoResponse
  /\ rank_runs = 0
  /\ first_rank = << >>
  /\ question_sessions = NoSessions

Returns(fn, value) ==
  /\ pc = "call"
  /\ arg.fn = fn
  /\ ret' = value
  /\ pc' = "returned"
  /\ UNCHANGED <<question_sessions, item_fields, preferences, weather, context_coords, api_key,
                 items, activity_items, ranked_items, llm_selected_items, keys,
                 time_bucket_limit, fallback_used, response, rank_runs,
                 first_rank, arg>>

call_apply_constraints ==
  /\ pc = "call" /\ arg.fn = "apply_constraints"
  /\ Returns("apply_constraints",
             apply_constraints([i \in DOMAIN arg.objs |-> i], arg.objs))

call_calculate_total_score ==
  /\ pc = "call" /\ arg.fn = "calculate_total_score"
  /\ Returns("calculate_total_score",
             calculate_total_score(arg.item, arg.prefs, arg.weather))

call_calculate_fallback_score ==
  /\ pc = "call" /\ arg.fn = "calculate_fallback_score"
  /\ Returns("calculate_fallback_score",
             calculate_fallback_score(
               [create_fallback_item(arg.entry, "ccib")
                  EXCEPT !.distance_meters = arg.distance],
               arg.prefs, arg.weather))

call_classify_time_fitness ==
  /\ pc = "call" /\ arg.fn = "classify_time_fitness"
  /\ Returns("classify_time_fitness", ClassifyItem(arg.item, arg.time_bucket))

\* The result of calculate_single_item_travel_time with the tier functions
\* get_multi_modal_travel_times_by_name awaited on the way.
call_calculate_single_item_travel_time ==
  /\ pc = "call" /\ arg.fn = "calculate_single_item_travel_time"
  /\ LET t == get_multi_modal_travel_times_by_name(arg.routes, arg.directions,
                                                    arg.item.name)
         r == ApplyTravelTimes(arg.item, t, time_limits(arg.time_bucket).travel_max)
     IN Returns("calculate_single_item_travel_time",
                [accepted |-> r.accepted, item |-> r.item, calls |-> t.calls])

call_calculate_travel_time_minutes ==
  /\ pc = "call" /\ arg.fn = "calculate_travel_time_minutes"
  /\ Returns("calculate_travel_time_minutes",
             calculate_travel_time_minutes(arg.distance_meters))

NextUnit ==
  \/ call_calculate_travel_time_minutes
  \/ call_calculate_single_item_travel_time
  \/ call_apply_constraints
  \/ call_calculate_total_score
  \/ call_calculate_fallback_score
  \/ call_classify_time_fitness

SpecUnit == InitUnit /\ [][NextUnit]_vars

\* ------------------------------------------------------------------------
\* The concurrent per-candidate tasks of search_and_normalize and of
\* calculate_travel_times_batch: tasks of one asyncio.gather finish one at
\* a time in any order; gather returns once all of them have finished.
\* arg.outcomes[i] is what the task of input item i ends with; ret.order is
\* the order in which tasks have finished, ret.start the offset of the
\* batch being awaited, ret.out the output list so far (input positions).
\* ------------------------------------------------------------------------
batch_size == 5

TaskOutcome == {"item", "none", "exception"}

GatherArgs ==
  { [fn |-> "calculate_travel_times_batch", outcomes |-> o] :
      o \in UNION {[1..n -> TaskOutcome] : n \in 0..MaxBatchItems} }
  \cup
  { [fn |-> "search_and_normalize", outcomes |-> o] :
      o \in UNION {[1..n -> TaskOutcome] : n \in 0..MaxItems} }

InitGather ==
  /\ pc = "gathering"
  /\ arg \in GatherArgs
  /\ ret = [start |-> 0, order |-> << >>, out |-> << >>]
  /\ item_fields = DeclaredFields \cup CommentedOutFields
  /\ preferences = [time_bucket |-> "30-60", budget_level |-> "low",
                    themes |-> {"relax"}]
  /\ weather = "sunny"
  /\ context_coords = "ccib"
  /\ api_key = FALSE
  /\ items = << >>
  /\ activity_items = << >>
  /\ ranked_items = << >>
  /\ llm_selected_items = << >>
  /\ keys = {}
  /\ time_bucket_limit = None
  /\ fallback_used = FALSE
  /\ response = NoResponse
  /\ rank_runs = 0
  /\ first_rank = << >>
  /\ question_sessions = NoSessions

\* The number of tasks of one gather: batch_size in the filter, the whole
\* list in search_and_normalize.
GatherSize(a) ==
  IF a.fn = "calculate_travel_times_batch" THEN batch_size ELSE Len(a.outcomes)

\* The input positions of the batch that starts after offset start.
BatchOf(a, start) ==
  [k \in 1..(Min2(start + GatherSize(a), Len(a.outcomes)) - start) |-> start + k]

\* A collector that takes the results as the tasks finish.
GatherResultsAsCompleted(batch, order) ==
  SelectSeq(order, LAMBDA i : i \in Range(batch))

\* asyncio.gather: the results in the order of the awaitables passed in,
\* whatever the order the tasks finished in.
GatherResults(batch, order) == batch

\* One task of the awaited batch finishes.
task_completes ==
  /\ pc = "gathering"
  /\ \E i \in Range(BatchOf(arg, ret.start)) \ Range(ret.order) :
       ret' = [ret EXCEPT !.order = Append(@, i)]
  /\ UNCHANGED <<question_sessions, pc, item_fields, preferences, weather, context_coords, api_key,
                 items, activity_items, ranked_items, llm_selected_items, keys,
                 time_bucket_limit, fallback_used, response, rank_runs,
                 first_rank, arg>>

\* gather returns: the results that are items are appended to the output;
\* the loop goes on to the next batch or the function returns.
gather_returns ==
  /\ pc = "gathering"
  /\ Range(BatchOf(arg, ret.start)) \subseteq Range(ret.order)
  /\ LET results == GatherResults(BatchOf(arg, ret.start), ret.order)
         kept == SelectSeq(results, LAMBDA i : arg.outcomes[i] = "item")
         more == ret.start + GatherSize(arg) < Len(arg.outcomes)
     IN /\ ret' = [ret EXCEPT !.out = @ \o kept,
                              !.start = IF more THEN @ + GatherSize(arg) ELSE @]
        /\ pc' = IF more THEN "gathering" ELSE "returned"
  /\ UNCHANGED <<question_sessions, item_fields, preferences, weather, context_coords, api_key,
                 items, activity_items, ranked_items, llm_selected_items, keys,
                 time_bucket_limit, fallback_used, response, rank_runs,
                 first_rank, arg>>

NextGather ==
  \/ task_completes
  \/ gather_returns

SpecGather == InitGather /\ [][NextGather]_vars

\* ------------------------------------------------------------------------
\* Question sessions (main.py): /api/questions/start, /answer, /back,
\* /{session_id} and /{session_id}/recommend on the question_sessions dict.
\* arg is the last request, ret the answer to it.
\* ------------------------------------------------------------------------
\* Question.answer of a question not answered yet (None).
NoAnswer == "<None>"

\* The ids of the questions of a session, in the order of their "order".
QuestionIds == <<"q1", "q2", "q3">>

\* The session id start_question_session hands out, and one it never did.
SessionIds == {"s1"}
RequestSessionIds == SessionIds \cup {"unknown"}

\* question ids and answers a client sends.
RequestQuestionIds == Range(QuestionIds) \cup {"unknown"}
Answers == {"indoor", "alone"}

InitQuestions ==
  /\ pc = "serving"
  /\ arg = [fn |-> "none"]
  /\ ret = [status |-> "none"]
  /\ question_sessions = NoSessions
  /\ item_fields = DeclaredFields
  /\ preferences = [time_bucket |-> "30-60", budget_level |-> "low",
                    themes |-> {"relax"}]
  /\ weather = "sunny"
  /\ context_coords = "ccib"
  /\ api_key = FALSE
  /\ items = << >>
  /\ activity_items = << >>
  /\ ranked_items = << >>
  /\ llm_selected_items = << >>
  /\ keys = {}
  /\ time_bucket_limit = None
  /\ fallback_used = FALSE
  /\ response = NoResponse
  /\ rank_runs = 0
  /\ first_rank = << >>

\* What a question endpoint leaves alone.
ServeFrame ==
  UNCHANGED <<pc, item_fields, preferences, weather, context_coords, api_key,
              items, activity_items, ranked_items, llm_selected_items, keys,
              time_bucket_limit, fallback_used, response, rank_runs, first_rank>>

\* int((current_question_index / len(questions)) * 100)
Progress(session) ==
  (session.current_question_index * 100) \div Len(session.questions)

\* QuestionResponse; current_question is the position of the question in
\* session.questions (from 0), None for no question.
QuestionResponse(current_question, is_completed, progress, can_go_back) ==
  [status |-> "ok", current_question |-> current_question,
   is_completed |-> is_completed, progress |-> progress,
   can_go_back |-> can_go_back]

\* start_question_session: the generated questions (1 to 3 of them; the
\* default questions are 3) become the session.
start_question_session ==
  /\ pc = "serving"
  /\ \E sid \in SessionIds \ DOMAIN question_sessions, n \in 1..Len(QuestionIds) :
       LET session ==
             [questions |-> [k \in 1..n |->
                               [id |-> QuestionIds[k], answer |-> NoAnswer,
                                order |-> k]],
              current_question_index |-> 0,
              is_completed |-> FALSE]
       IN /\ question_sessions' =
               [s \in DOMAIN question_sessions \cup {sid} |->
                  IF s = sid THEN session ELSE question_sessions[s]]
          /\ arg' = [fn |-> "start_question_session"]
          /\ ret' = QuestionResponse(0, FALSE, 0, FALSE)
  /\ ServeFrame

\* The position of the first question with the given id, 0 for none.
FirstWithId(questions, question_id) ==
  IF \E k \in DOMAIN questions : questions[k].id = question_id
  THEN CHOOSE k \in DOMAIN questions :
         /\ questions[k].id = question_id
         /\ \A j \in 1..(k - 1) : questions[j].id # question_id
  ELSE 0

answer_question ==
  /\ pc = "serving"
  /\ \E sid \in RequestSessionIds, qid \in RequestQuestionIds, answer \in Answers :
       /\ arg' = [fn |-> "answer_question", session_id |-> sid,
                  question_id |-> qid, answer |-> answer]
       /\ IF sid \notin DOMAIN question_sessions
          THEN /\ ret' = [status |-> "http404"]
               /\ UNCHANGED question_sessions
          ELSE LET session == question_sessions[sid]
                   k == FirstWithId(session.questions, qid)
                   answered == IF k = 0 THEN session.questions
                               ELSE [session.questions EXCEPT ![k].answer = answer]
                   index == session.current_question_index + 1
                   completed == index >= Len(session.questions)
                   after == [session EXCEPT
                               !.questions = answered,
                               !.current_question_index = index,
                               !.is_completed = IF completed THEN TRUE ELSE @]
               IN /\ session.current_question_index < MaxIndex
                  /\ question_sessions' = [question_sessions EXCEPT ![sid] = after]
                  /\ ret' = IF completed
                            THEN QuestionResponse(None, TRUE, 100, TRUE)
                            ELSE QuestionResponse(index, FALSE, Progress(after), TRUE)
  /\ ServeFrame

\* The index is stepped back before session.questions is indexed with it;
\* an index past the end of the list is an IndexError (HTTP 500).
go_back_question ==
  /\ pc = "serving"
  /\ \E sid \in RequestSessionIds :
       /\ arg' = [fn |-> "go_back_question", session_id |-> sid]
       /\ IF sid \notin DOMAIN question_sessions
          THEN /\ ret' = [status |-> "http404"]
               /\ UNCHANGED question_sessions
          ELSE LET session == question_sessions[sid]
                   index == IF session.current_question_index > 0
                            THEN session.current_question_index - 1
                            ELSE session.current_question_index
                   after == [session EXCEPT !.current_question_index = index]
               IN /\ question_sessions' = [question_sessions EXCEPT ![sid] = after]
                  /\ ret' = IF index >= Len(session.questions)
                            THEN [status |-> "http500"]
                            ELSE QuestionResponse(index, FALSE, Progress(after),
                                                  index > 0)
  /\ ServeFrame

get_question_session ==
  /\ pc = "serving"
  /\ \E sid \in RequestSessionIds :
       /\ arg' = [fn |-> "get_question_session", session_id |-> sid]
       /\ IF sid \notin DOMAIN question_sessions
          THEN ret' = [status |-> "http404"]
          ELSE LET session == question_sessions[sid]
                   index == session.current_question_index
               IN ret' = IF ~session.is_completed /\ index >= Len(session.questions)
                         THEN [status |-> "http500"]
                         ELSE QuestionResponse(
                                IF session.is_completed THEN None ELSE index,
                                session.is_completed, Progress(session), index > 0)
  /\ UNCHANGED question_sessions
  /\ ServeFrame

\* The question-answer pairs convert_question_answers_to_preferences
\* builds: the positions of the questions that have an answer.
question_answer_pairs(session) ==
  SelectSeq([k \in DOMAIN session.questions |-> k],
            LAMBDA k : session.questions[k].answer # NoAnswer)

\* get_recommendations_from_questions up to the call of the graph: 404, 400
\* or the graph invoked with the preferences made of the recorded answers.
get_recommendations_from_questions ==
  /\ pc = "serving"
  /\ \E sid \in RequestSessionIds :
       /\ arg' = [fn |-> "get_recommendations_from_questions", session_id |-> sid]
       /\ ret' = IF sid \notin DOMAIN question_sessions
                 THEN [status |-> "http404"]
                 ELSE IF ~question_sessions[sid].is_completed
                 THEN [status |-> "http400"]
                 ELSE [status |-> "invoked",
                       pairs |-> question_answer_pairs(question_sessions[sid])]
  /\ UNCHANGED question_sessions
  /\ ServeFrame

NextQuestions ==
  \/ start_question_session
  \/ answer_question
  \/ go_back_question
  \/ get_question_session
  \/ get_recommendations_from_questions

SpecQuestions == InitQuestions /\ [][NextQuestions]_vars

\* ------------------------------------------------------------------------
\* Properties of the recommendation run
\* ------------------------------------------------------------------------
\* C1: once calculate_travel_time_filter has returned, on every path (the
\* 45-second timeout / exception path included), each item left in
\* activity_items has a walking, transit or driving time within the bucket's
\* travel_max; no item violating the limit is present in later stages.
C1_KeptItemsWithinTravelMax ==
  (pc \notin {"search_and_normalize", "filter_by_travel_time"}) =>
    \A k \in 1..Len(activity_items) :
      LET item == items[activity_items[k]]
          travel_max == time_limits(preferences.time_bucket).travel_max
      IN \/ (item.walking_time_min # None /\ item.walking_time_min <= travel_max)
         \/ (item.transit_time_min # None /\ item.transit_time_min <= travel_max)
         \/ (item.driving_time_min # None /\ item.driving_time_min <= travel_max)

\* C4: when the search produces no candidate, the run completes without
\* raising, fallback_used is true and the list handed to the caller is
\* exactly 4 entries of the fallback catalog.
C4_NoCandidatesGivesFourFallbacks ==
  (pc = "done" /\ "activity_items" \in keys
     /\ \A i \in DOMAIN items : i > FallbackId(0)) =>
    /\ response.status = "ok"
    /\ response.fallbackUsed
    /\ Len(response.items) = 4
    /\ \A k \in 1..Len(response.items) :
         /\ response.items[k] \in DOMAIN items
         /\ items[response.items[k]].source = "fallback"

C9_NoLLMFinalItemsInScoreOrder ==
  (pc = "done" /\ response.status = "ok" /\ ~api_key) =>
    \A k \in 1..(Len(response.items) - 1) :
      (response.items[k] <= FallbackId(0) /\ response.items[k + 1] <= FallbackId(0))
        => items[response.items[k]].total_score
             >= items[response.items[k + 1]].total_score

C2_ConstraintsHold ==
  (pc = "returned" /\ arg.fn = "apply_constraints") =>
    /\ Len(ret) <= 4
    /\ \A c \in CategoryType :
         Cardinality({k \in 1..Len(ret) : arg.objs[ret[k]].category = c}) <= 2
    /\ \A j, k \in 1..Len(ret) :
         (j # k /\ arg.objs[ret[j]].chain /\ arg.objs[ret[k]].chain)
           => Lower(arg.objs[ret[j]].name) # Lower(arg.objs[ret[k]].name)

\* A list of five with a chain named twice in different case and three
\* items of one category, cut down to four.
C2_Witness ==
  /\ pc = "returned"
  /\ arg.fn = "apply_constraints"
  /\ Len(arg.objs) = 5
  /\ Len(ret) = 4
  /\ \E j, k \in DOMAIN arg.objs :
       /\ j < k
       /\ arg.objs[j].chain /\ arg.objs[k].chain
       /\ arg.objs[j].name # arg.objs[k].name
       /\ Lower(arg.objs[j].name) = Lower(arg.objs[k].name)
       /\ j \in Range(ret)
  /\ \E c \in CategoryType :
       Cardinality({k \in DOMAIN arg.objs : arg.objs[k].category = c}) >= 3

\* C5: every total_score, from calculate_total_score or from
\* calculate_fallback_score for a catalog entry, is between 0 and 100
\* (0 and 1000 tenths).
C5_TotalScoreInRange ==
  (pc = "returned"
     /\ arg.fn \in {"calculate_total_score", "calculate_fallback_score"}) =>
    (0 <= ret /\ ret <= 1000)

\* A closed, distant chain place whose sub-scores sum below zero, scored 0.
C5_Witness ==
  /\ pc = "returned"
  /\ arg.fn = "calculate_total_score"
  /\ RawTotalScore(arg.item, arg.prefs, arg.weather) < 0
  /\ ret = 0

C12_TimeoutKeepsCompletedResults ==
  (pc = "classify_time") =>
    \A i \in DOMAIN items :
      (items[i].walking_time_min # None) =>
        LET travel_max == time_limits(preferences.time_bucket).travel_max
        IN (i \in Range(activity_items)) <=>
             (\/ items[i].walking_time_min <= travel_max
              \/ items[i].transit_time_min <= travel_max
              \/ items[i].driving_time_min <= travel_max)

\* C13 as stated: a candidate without coordinates and without a walking
\* time whose name contains a far keyword gets walk 60 / drive 15 / transit
\* 25 from the estimate by name, whatever else the name contains.
C13_FarNameGetsFarMinutes ==
  (pc = "returned" /\ arg.fn = "classify_time_fitness"
     /\ ~arg.item.coords /\ arg.item.walking_time_min = None
     /\ \E k \in far_keywords : KeywordIn(k, arg.item.name)) =>
    /\ ret.walking_time_min = 60
    /\ ret.driving_time_min = 15
    /\ ret.transit_time_min = 25

\* C13, amended: such a candidate gets 60 / 15 / 25 when its name contains
\* no nearby and no mid-distance keyword; with a nearby keyword it gets
\* 15 / 5 / 10, else with a mid-distance keyword 35 / 10 / 20; it never
\* gets the 25 / 8 / 15 of an unknown place.
C13_FarNameGetsNearestBucketMinutes ==
  (pc = "returned" /\ arg.fn = "classify_time_fitness"
     /\ ~arg.item.coords /\ arg.item.walking_time_min = None
     /\ \E k \in far_keywords : KeywordIn(k, arg.item.name)) =>
    LET minutes == <<ret.walking_time_min, ret.driving_time_min,
                     ret.transit_time_min>>
    IN /\ minutes =
            IF \E k \in nearby_keywords : KeywordIn(k, arg.item.name)
            THEN <<15, 5, 10>>
            ELSE IF \E k \in mid_distance_keywords : KeywordIn(k, arg.item.name)
            THEN <<35, 10, 20>>
            ELSE <<60, 15, 25>>
       /\ minutes # <<25, 8, 15>>
       /\ ret.travel_time_min = ret.walking_time_min

\* "Bar Sants" without coordinates and walking time: 60 / 15 / 25.
C13_Witness ==
  /\ pc = "returned"
  /\ arg.fn = "classify_time_fitness"
  /\ ~arg.item.coords /\ arg.item.walking_time_min = None
  /\ arg.item.name = "Bar Sants"
  /\ ret.walking_time_min = 60
  /\ ret.driving_time_min = 15
  /\ ret.transit_time_min = 25

\* C14: the tiers of get_multi_modal_travel_times_by_name run in the order
\* Routes, Directions, name estimate; a tier is awaited only if every
\* earlier tier failed, and none after the first tier that succeeded.
C14_TiersInOrder ==
  (pc = "returned" /\ arg.fn = "calculate_single_item_travel_time") =>
    LET order == <<"routes", "directions", "estimation">>
        calls == ret.calls
        succeeded(t) == CASE t = "routes" -> arg.routes > 0
                          [] t = "directions" -> arg.directions > 0
                          [] OTHER -> TRUE
    IN /\ Len(calls) \in 1..3
       /\ calls = SubSeq(order, 1, Len(calls))
       /\ \A k \in 1..Len(calls) :
            /\ \A j \in 1..(k - 1) : ~succeeded(calls[j])
            /\ succeeded(calls[k]) => k = Len(calls)
       /\ succeeded(calls[Len(calls)])

\* Routes fails, Directions answers 9 minutes: two tiers awaited, the
\* estimate is not.
C14_Witness ==
  /\ pc = "returned"
  /\ arg.fn = "calculate_single_item_travel_time"
  /\ arg.routes = 0 /\ arg.directions = 9
  /\ ret.calls = <<"routes", "directions">>
  /\ ret.item.walking_time_min = 9

C17_ChosenTravelTimeKept ==
  (pc = "returned" /\ arg.fn = "classify_time_fitness"
     /\ arg.item.travel_time_min # None) =>
    /\ ret.travel_time_min = arg.item.travel_time_min
    /\ TotalTime(ret) = arg.item.travel_time_min + get_expected_wait_time(arg.item)
                          + get_expected_duration(arg.item)

C19_ClassifierFields ==
  {"travel_time_min", "walking_time_min", "driving_time_min",
   "transit_time_min", "expected_wait_min", "expected_duration_min",
   "distance_meters", "time_fitness_score"}

\* C19: classify_time_fitness never removes, adds or reorders items:
\* activity_items after the stage is the sequence it was before, and on the
\* items themselves only the travel-time fields, the expected wait and stay,
\* the distance and time_fitness_score change.
C19_ClassifierKeepsItems ==
  [][pc = "classify_time" =>
       /\ activity_items' = activity_items
       /\ DOMAIN items' = DOMAIN items
       /\ \A i \in DOMAIN items :
            /\ DOMAIN items'[i] = DOMAIN items[i]
            /\ \A f \in DOMAIN items[i] \ C19_ClassifierFields :
                 items'[i][f] = items[i][f]
            /\ i \notin Range(activity_items) => items'[i] = items[i]]_vars

C19_Witness ==
  /\ pc = "rank_activities"
  /\ rank_runs = 0
  /\ Len(activity_items) >= 2
  /\ \E i \in Range(activity_items) : items[i].time_fitness_score = 1
  /\ \E i \in Range(activity_items) :
       items[i].time_fitness_score = 20 /\ items[i].expected_wait_min # None

C21_ChainSkippedOnlyForKeptName ==
  (pc = "returned" /\ arg.fn = "apply_constraints") =>
    \A k \in DOMAIN arg.objs :
      LET before == {j \in Range(ret) : j < k}
      IN (/\ k \notin Range(ret)
          /\ arg.objs[k].chain
          /\ Cardinality(before) < 4
          /\ Cardinality({j \in before :
                            arg.objs[j].category = arg.objs[k].category}) < 2)
           => \E j \in before : Lower(arg.objs[j].name) = Lower(arg.objs[k].name)

\* ------------------------------------------------------------------------
\* Properties of the walking time from a distance
\* ------------------------------------------------------------------------
\* C22 as stated: for every distance in meters >= 0,
\* calculate_travel_time_minutes returns max(3, round(meters / 80)).
C22_WalkMinutesRounded ==
  (pc = "returned" /\ arg.fn = "calculate_travel_time_minutes") =>
    ret = Max2(3, RoundedWalkMinutes(arg.distance_meters))

\* C22, amended: for every distance in meters >= 0,
\* calculate_travel_time_minutes returns max(3, floor(meters / 80)): the
\* quotient is cut off, not rounded, so the result m >= 4 covers the
\* distances 80 * m .. 80 * m + 79.
C22_WalkMinutesCutOff ==
  (pc = "returned" /\ arg.fn = "calculate_travel_time_minutes") =>
    /\ ret >= 3
    /\ \/ ret = 3 /\ arg.distance_meters < 320
       \/ 80 * ret <= arg.distance_meters /\ arg.distance_meters < 80 * (ret + 1)

\* 300 m: 3.75 minutes, rounded 4, returned 3.
C22_Witness ==
  /\ pc = "returned"
  /\ arg.fn = "calculate_travel_time_minutes"
  /\ arg.distance_meters = 300
  /\ ret = 3

\* ------------------------------------------------------------------------
\* Properties of the concurrent stages
\* ------------------------------------------------------------------------
\* C23: in search_and_normalize and in calculate_travel_times_batch the
\* output list is a subsequence of the input in input order, whatever the
\* order in which the tasks finish and across batch boundaries: once the
\* function has returned, the output is the input positions whose task gave
\* an item, in increasing order.
C23_OutputInInputOrder ==
  /\ \A j, k \in DOMAIN ret.out : j < k => ret.out[j] < ret.out[k]
  /\ pc = "returned" =>
       ret.out = SelectSeq([i \in DOMAIN arg.outcomes |-> i],
                           LAMBDA i : arg.outcomes[i] = "item")

\* A filter run over two batches whose tasks finished out of input order,
\* with items kept from both batches.
C23_Witness ==
  /\ pc = "returned"
  /\ arg.fn = "calculate_travel_times_batch"
  /\ Len(arg.outcomes) > batch_size
  /\ \E j, k \in DOMAIN ret.order : j < k /\ ret.order[j] > ret.order[k]
  /\ \E j \in DOMAIN ret.out : ret.out[j] > batch_size
  /\ Cardinality({j \in DOMAIN ret.out : ret.out[j] <= batch_size}) >= 2
  /\ ret.order[1] \in Range(ret.out)
  /\ ret.order[1] # ret.out[1]

C26_ProviderTimeAlwaysAccepted ==
  (pc = "returned" /\ arg.fn = "calculate_single_item_travel_time") =>
    /\ (arg.routes > 0 \/ arg.directions > 0) =>
         /\ ret.accepted
         /\ ret.item.driving_time_min = 8
         /\ ret.item.transit_time_min = 15
         /\ ret.item.walking_time_min =
              IF arg.routes > 0 THEN arg.routes ELSE arg.directions
    /\ ~ret.accepted => ret.calls = <<"routes", "directions", "estimation">>

\* 70 walking minutes from the Routes tier in the <=30 bucket: accepted at
\* the drive tier.
C26_Witness ==
  /\ pc = "returned"
  /\ arg.fn = "calculate_single_item_travel_time"
  /\ arg.time_bucket = "<=30"
  /\ arg.routes = 70
  /\ ret.accepted
  /\ ret.item.time_fitness_score = 10
  /\ ret.item.travel_time_min = 8

\* ------------------------------------------------------------------------
\* Properties of the item type
\* ------------------------------------------------------------------------
\* C27: every attribute a stage assigns or reads on an ActivityItem
\* (expected_wait_min, expected_duration_min, llm_score) is a declared
\* field, so no stage of a run fails on a non-empty collection because of
\* an undeclared field: no run has a stage raise on its item collection.
C27_StagesNeverFailOnItemFields ==
  pc = "raised" => (activity_items = << >> \/ CommentedOutFields \subseteq item_fields)

\* ------------------------------------------------------------------------
\* Properties of the question sessions
\* ------------------------------------------------------------------------
\* C28: after any sequence of answer_question and go_back_question calls
\* on a session, 0 <= current_question_index <= number of questions, and
\* go_back_question and get_question_session never index the question list
\* out of range.
C28_QuestionIndexInRange ==
  /\ \A sid \in DOMAIN question_sessions :
       /\ question_sessions[sid].current_question_index >= 0
       /\ question_sessions[sid].current_question_index
            <= Len(question_sessions[sid].questions)
  /\ arg.fn \in {"go_back_question", "get_question_session"} =>
       ret.status # "http500"

\* C29: get_recommendations_from_questions goes on to recommendations only
\* for a session in which every question has a recorded answer; for every
\* other state of an existing session it answers with the 400 error.
C29_RecommendOnlyWhenAllAnswered ==
  (arg.fn = "get_recommendations_from_questions"
     /\ arg.session_id \in DOMAIN question_sessions) =>
    LET session == question_sessions[arg.session_id]
        all_answered == \A k \in DOMAIN session.questions :
                          session.questions[k].answer # NoAnswer
    IN /\ ret.status = "invoked" => all_answered
       /\ ~all_answered => ret.status = "http400"

====
